---- MODULE Spec2Model ----
(***************************************************************************)
(* A model of tools/bookbuilder/bookbuilder.py: main and build_book as a   *)
(* state machine over the ordered file list, with the per-page steps       *)
(* (clean, embed images, translate, chapter gate) and the final write of   *)
(* the EPUB and the PDF.                                                   *)
(*                                                                         *)
(* A document is a small DOM: a forest of nodes in document order.  A node *)
(* is a record [tag, id, len, kind, src, tiny, attrs, kids]:               *)
(*   tag   "#text", "img" or an element name;                              *)
(*   id    a number that tells the node from the others of its document    *)
(*         (0 where no property needs to tell it apart);                   *)
(*   len   for a text node, the length of its stripped text;               *)
(*   kind  for a text node, what the text is made of:                      *)
(*           "prose"  ordinary words,                                      *)
(*           "noise"  only utility words (highlight, delete, add note,     *)
(*                    share quote, introduzione),                          *)
(*           "phrase" words with another phrase of noise_phrases among     *)
(*                    them (such as "Next page"),                          *)
(*           "title"  a line starting with the book title,                 *)
(*           "punct"  no word character at all (such as "* * *");          *)
(*   src   for an img, its src attribute [kind, ref, mime, suffix];        *)
(*   tiny  for an img, whether width or height is declared <= 1;           *)
(*   attrs the other attributes that matter, a sequence of [name, val],    *)
(*         val a record like src (of kind "chrome" for an id or class     *)
(*         with a chrome keyword, "absolute" for a style with              *)
(*         position:absolute or position:fixed);                           *)
(*   kids  the child nodes.                                                *)
(* Strings that the program builds (file names) are sequences of           *)
(* characters, so that two names are equal exactly when the strings are.   *)
(***************************************************************************)
EXTENDS Integers, Sequences, FiniteSets, TLC

\* ------------------------------------------------------------------ bounds

\* The largest number of HTML files list_html_files returns.
MaxFiles == 3

\* ------------------------------------------------------- program constants

\* _translate_texts: for attempt in range(5)
TranslateAttempts == 5
\* forced_keep = len(plain) >= 200
ForcedKeepLen == 200
\* looks_junk: len(plain) < 240
JunkLen == 240
\* very_short: len(plain) < 160 ... a_count <= 5
VeryShortLen == 160
VeryShortLinks == 5
\* body_too_small: len(plain) < 400 and p_count <= 1
TooSmallLen == 400
\* main_root: len(main_root.find_all("p")) < 3 and len(text) < 800
MainMinP == 3
MainMinLen == 800
\* chrome blocks: p_count >= 3 or text_len > 500
ChromeKeepP == 3
ChromeKeepLen == 500
\* noise blocks: blk_p_count <= 1 and blk_text_len < 400
NoiseBlockP == 1
NoiseBlockLen == 400
\* utility lists: len(links) <= 3 and text_len < 120
UtilLinks == 3
UtilLen == 120
\* title banners: len(txt) < 200, within the first elements (count > 200)
TitleLen == 200
TitleWalk == 200
\* top-level lists: len(links) >= 3 and text_len < 300, in contents[:10]
NavLinks == 3
NavLen == 300
TopBlocks == 10
\* INTRODUZIONE: contents[:8]
FirstBlocks == 8

\* ---------------------------------------------------------------- the DOM

NoSrc == [kind |-> "none", ref |-> <<>>, mime |-> "", suffix |-> ""]

Txt(n, k) ==
    [tag |-> "#text", id |-> 0, len |-> n, kind |-> k, src |-> NoSrc, tiny |-> FALSE,
     attrs |-> <<>>, kids |-> <<>>]

El(t, ks) ==
    [tag |-> t, id |-> 0, len |-> 0, kind |-> "", src |-> NoSrc, tiny |-> FALSE,
     attrs |-> <<>>, kids |-> ks]

Img(s, t) ==
    [tag |-> "img", id |-> 0, len |-> 0, kind |-> "", src |-> s, tiny |-> t,
     attrs |-> <<>>, kids |-> <<>>]

\* The nodes of a forest in document order (what find_all walks).
RECURSIVE Flatten(_)
Flatten(ns) ==
    IF ns = <<>> THEN <<>>
    ELSE <<Head(ns)>> \o Flatten(Head(ns).kids) \o Flatten(Tail(ns))

\* soup.find_all(tags)
find_all(ns, tags) == SelectSeq(Flatten(ns), LAMBDA n : n.tag \in tags)

\* The non-empty stripped strings of a forest, in order.
Strings(ns) == SelectSeq(Flatten(ns), LAMBDA n : n.tag = "#text" /\ n.len > 0)

RECURSIVE SumLen(_)
SumLen(ts) == IF ts = <<>> THEN 0 ELSE Head(ts).len + SumLen(Tail(ts))

\* len(x.get_text(" ", strip=True)): the stripped strings joined by one space.
get_text_len(ns) ==
    LET ts == Strings(ns)
    IN  IF ts = <<>> THEN 0 ELSE SumLen(ts) + (Len(ts) - 1)

\* Whether the text of a forest holds a word character (regex \w).
HasWord(ns) == \E i \in 1..Len(Strings(ns)) : Strings(ns)[i].kind # "punct"

\* What the joined text of a forest is made of (see the kinds above): the
\* text starts with the book title, is only utility words, has no word
\* character, or is ordinary prose.
TextKind(ns) ==
    LET ts == Strings(ns)
    IN  IF ts = <<>> THEN "punct"
        ELSE IF \A i \in 1..Len(ts) : ts[i].kind = "noise" THEN "noise"
        ELSE IF \A i \in 1..Len(ts) : ts[i].kind = "punct" THEN "punct"
        ELSE IF ts[1].kind = "title" THEN "title"
        ELSE "prose"

\* ------------------------------------------------------------ characters

DigitChars == <<"0", "1", "2", "3", "4", "5", "6", "7", "8", "9">>

\* str(n) for n >= 0, as the sequence of its decimal digits.
RECURSIVE Str(_)
Str(n) ==
    IF n < 10 THEN <<DigitChars[n + 1]>>
    ELSE Str(n \div 10) \o <<DigitChars[(n % 10) + 1]>>

\* f"{n:03}": at least three digits, zero padded.
Str03(n) ==
    IF n < 10 THEN <<"0", "0">> \o Str(n)
    ELSE IF n < 100 THEN <<"0">> \o Str(n)
    ELSE Str(n)

ExtChars(ext) ==
    CASE ext = ".jpg"  -> <<".", "j", "p", "g">>
      [] ext = ".jpeg" -> <<".", "j", "p", "e", "g">>
      [] ext = ".png"  -> <<".", "p", "n", "g">>
      [] ext = ".gif"  -> <<".", "g", "i", "f">>
      [] ext = ".webp" -> <<".", "w", "e", "b", "p">>
      [] ext = ".svg"  -> <<".", "s", "v", "g">>
      [] OTHER         -> <<".", "b", "i", "n">>

HasPrefix(x, pre) == Len(x) >= Len(pre) /\ SubSeq(x, 1, Len(pre)) = pre

HasSuffix(x, suf) ==
    Len(x) >= Len(suf) /\ SubSeq(x, Len(x) - Len(suf) + 1, Len(x)) = suf

ImagesDir == <<"i", "m", "a", "g", "e", "s", "/">>

CoverName == <<"c", "o", "v", "e", "r", ".", "j", "p", "g">>

\* A prefix that leaves the file's index out.
ImgPrefixShared(idx) == <<"i", "m", "g", "_">>

\* img_prefix=f"img_{file_idx}_"
ImgPrefix(idx) == <<"i", "m", "g", "_">> \o Str(idx) \o <<"_">>

\* fname = f"{img_prefix}{counter}{ext}"
Fname(prefix, counter, ext) == prefix \o Str(counter) \o ExtChars(ext)

\* file_name=f"chapters/ch_{chap_index:03}.xhtml"
ChapterFile(idx) ==
    <<"c", "h", "a", "p", "t", "e", "r", "s", "/", "c", "h", "_">> \o Str03(idx)
        \o <<".", "x", "h", "t", "m", "l">>

\* ---------------------------------------------------------- the sanitizer

\* A node of a forest is found by its path: the index of its ancestor among
\* the top-level nodes, then among that one's children, and so on.
RECURSIVE PathsFrom(_, _)
PathsFrom(ns, pre) ==
    UNION { {pre \o <<k>>} \cup PathsFrom(ns[k].kids, pre \o <<k>>) : k \in 1..Len(ns) }

Paths(ns) == PathsFrom(ns, <<>>)

RECURSIVE NodeAt(_, _)
NodeAt(ns, path) ==
    IF Len(path) = 1 THEN ns[path[1]] ELSE NodeAt(ns[path[1]].kids, Tail(path))

\* The paths of the ancestors of a node (its parents up to the top level).
Ancestors(path) == { SubSeq(path, 1, k) : k \in 1..(Len(path) - 1) }

\* Document order: p is met before q by find_all.
RECURSIVE Before(_, _)
Before(p, q) ==
    IF q = <<>> THEN FALSE
    ELSE IF p = <<>> THEN TRUE
    ELSE IF Head(p) = Head(q) THEN Before(Tail(p), Tail(q))
    ELSE Head(p) < Head(q)

\* tag.decompose() for every node whose path is in gone: the forest ns (its
\* nodes from the k-th on, under the path pre) without them.
RECURSIVE Without(_, _, _, _)
Without(ns, k, pre, gone) ==
    IF k > Len(ns) THEN <<>>
    ELSE (IF (pre \o <<k>>) \in gone THEN <<>>
          ELSE <<[ns[k] EXCEPT !.kids = Without(ns[k].kids, 1, pre \o <<k>>, gone)]>>)
         \o Without(ns, k + 1, pre, gone)

decompose(ns, gone) == Without(ns, 1, <<>>, gone)

\* The elements (find_all(True)) of a forest, as paths.
Elements(ns) == { p \in Paths(ns) : NodeAt(ns, p).tag # "#text" }

\* len(el.find_all("p")), len(el.get_text(" ", strip=True)), len(el.find_all("img"))
p_count(n) == Len(find_all(n.kids, {"p"}))
text_len(n) == get_text_len(n.kids)
img_count(n) == Len(find_all(n.kids, {"img"}))

\* main_root in el.descendants
ContainsId(ns, i) == \E k \in 1..Len(Flatten(ns)) : Flatten(ns)[k].id = i

\* main_root and (tag is main_root or main_root in tag.descendants); mr is
\* the id of main_root, 0 for None.
Protected(n, mr) == mr # 0 /\ (n.id = mr \/ ContainsId(n.kids, mr))

\* el in main_root.descendants
Inside(ns, path, mr) == mr # 0 /\ \E q \in Ancestors(path) : NodeAt(ns, q).id = mr

\* for tag in soup([...]): tag.decompose(), and the <style> tags; a <link>
\* of the model is a stylesheet link, which stays.
remove_scripts(ns) ==
    decompose(ns, { p \in Elements(ns) :
        NodeAt(ns, p).tag \in {"script", "noscript", "iframe", "embed", "object", "style"} })

\* score = (p_count * 200) + txt_len
score(c) == (p_count(c) * 200) + text_len(c)

\* The detection of main_root: the first candidate of the highest score, or
\* None (0) when it has fewer than 3 paragraphs and fewer than 800 characters.
detect_main_root(ns) ==
    LET candidates == find_all(ns, {"article", "main", "div", "section"})
        best == CHOOSE i \in 1..Len(candidates) :
                    /\ \A j \in 1..Len(candidates) : score(candidates[j]) <= score(candidates[i])
                    /\ \A j \in 1..(i - 1) : score(candidates[j]) < score(candidates[i])
    IN  IF candidates = <<>> THEN 0
        ELSE IF p_count(candidates[best]) < MainMinP /\ text_len(candidates[best]) < MainMinLen
             THEN 0
             ELSE candidates[best].id

\* header/footer/nav/aside/form/button/svg, but for main_root and what holds it.
remove_chrome_tags(ns, mr) ==
    decompose(ns, { p \in Elements(ns) :
        /\ NodeAt(ns, p).tag \in {"header", "footer", "nav", "aside", "form", "button", "svg"}
        /\ ~Protected(NodeAt(ns, p), mr) })

\* any(k in cid or k in cls for k in chrome_keywords)
HasChromeKeyword(n) ==
    \E k \in 1..Len(n.attrs) : n.attrs[k].name \in {"id", "class"} /\ n.attrs[k].val.kind = "chrome"

\* The blocks with a chrome keyword in id or class, unless they are, hold or
\* are inside main_root, or look like content, or hold an image.
remove_chrome_blocks(ns, mr) ==
    decompose(ns, { p \in Elements(ns) :
        LET el == NodeAt(ns, p)
        IN  /\ el.tag \in {"div", "nav", "aside", "section", "header", "footer"}
            /\ HasChromeKeyword(el)
            /\ ~(Protected(el, mr) \/ Inside(ns, p, mr))
            /\ ~(p_count(el) >= ChromeKeepP \/ text_len(el) > ChromeKeepLen)
            /\ img_count(el) = 0 })

\* not element.get_text(strip=True) and not element.find_all(['img', 'table'])
IsEmpty(n) == Strings(n.kids) = <<>> /\ find_all(n.kids, {"img", "table"}) = <<>>

\* Remove empty or whitespace-only elements: div, p and span only.
remove_empty(ns) ==
    decompose(ns, { p \in Elements(ns) :
        NodeAt(ns, p).tag \in {"div", "p", "span"} /\ IsEmpty(NodeAt(ns, p)) })

\* The kinds of a string that noise_re matches.
NoiseKinds == {"noise", "phrase"}

\* soup.find_all(string=noise_re)
NoiseStrings(ns) ==
    { p \in Paths(ns) : LET t == NodeAt(ns, p)
                        IN  t.tag = "#text" /\ t.len > 0 /\ t.kind \in NoiseKinds }

\* The first path of a set in document order.
First(S) == CHOOSE p \in S : \A q \in S \ {p} : Before(p, q)

\* The last path of a set of ancestors of one node: the nearest one.
Nearest(S) == CHOOSE p \in S : \A q \in S : Len(q) <= Len(p)

\* The <body> around the top-level nodes; its path is <<>>.
Body(ns) == El("body", ns)

BlockAt(ns, path) == IF path = <<>> THEN Body(ns) ELSE NodeAt(ns, path)

\* blk of a string: the nearest section/div/nav/header/footer/aside above
\* it, or else its parent.
BlkOf(ns, t) ==
    LET blocks == { q \in Ancestors(t) :
                      NodeAt(ns, q).tag \in {"section", "div", "nav", "header", "footer", "aside"} }
    IN  IF blocks # {} THEN Nearest(blocks) ELSE SubSeq(t, 1, Len(t) - 1)

\* One turn of the loop over the noise strings, for the string t: the small
\* block without image that neither is nor holds main_root is decomposed,
\* otherwise the string alone is extracted.
noise_turn(ns, t, mr) ==
    LET blk == BlockAt(ns, BlkOf(ns, t))
    IN  IF /\ ~Protected(blk, mr)
           /\ p_count(blk) <= NoiseBlockP
           /\ text_len(blk) < NoiseBlockLen
           /\ img_count(blk) = 0
        THEN (IF BlkOf(ns, t) = <<>> THEN <<>> ELSE decompose(ns, {BlkOf(ns, t)}))
        ELSE decompose(ns, {t})

\* for t in soup.find_all(string=noise_re): the strings in document order,
\* each seeing what the turns before it left.
RECURSIVE remove_noise(_, _)
remove_noise(ns, mr) ==
    IF NoiseStrings(ns) = {} THEN ns
    ELSE remove_noise(noise_turn(ns, First(NoiseStrings(ns)), mr), mr)

\* position:absolute or position:fixed in the style attribute
IsPositioned(n) ==
    \E k \in 1..Len(n.attrs) : n.attrs[k].name = "style" /\ n.attrs[k].val.kind = "absolute"

\* Pass 3: in a container that holds an image (the <body>, when anything
\* does), the positioned elements that hold no image.
remove_overlays(ns) ==
    IF find_all(ns, {"img"}) = <<>> THEN ns
    ELSE decompose(ns, { p \in Elements(ns) :
             LET child == NodeAt(ns, p)
             IN  child.tag # "img" /\ IsPositioned(child) /\ img_count(child) = 0 })

\* link_texts and link_texts.issubset(util_words)
OnlyUtils(lst) ==
    LET links == find_all(lst.kids, {"a"})
    IN  links # <<>> /\ \A k \in 1..Len(links) : TextKind(links[k].kids) = "noise"

\* Pass 4b: the lists of utility links or of few links and little text,
\* unless they hold main_root.
remove_utility_lists(ns, mr) ==
    decompose(ns, { p \in Elements(ns) :
        LET lst == NodeAt(ns, p)
        IN  /\ lst.tag \in {"ul", "ol"}
            /\ \/ OnlyUtils(lst)
               \/ Len(find_all(lst.kids, {"a"})) <= UtilLinks /\ text_len(lst) < UtilLen
            /\ ~Protected(lst, mr) })

\* The text of a forest holds the title fragment "il cammino neocatecumenale".
HasTitle(ns) == \E k \in 1..Len(Strings(ns)) : Strings(ns)[k].kind = "title"

\* Pass 4c: among the first elements of the body, the short h1/h2/h3/div/p/
\* span with the title fragment and without image.
remove_title_banners(ns) ==
    decompose(ns, { p \in Elements(ns) :
        LET el == NodeAt(ns, p)
        IN  /\ Cardinality({ q \in Elements(ns) : Before(q, p) }) <= TitleWalk
            /\ el.tag \in {"h1", "h2", "h3", "div", "p", "span"}
            /\ text_len(el) > 0 /\ text_len(el) < TitleLen
            /\ HasTitle(el.kids)
            /\ img_count(el) = 0 })

Min(a, b) == IF a < b THEN a ELSE b

\* Pass 4: among the first top-level nodes, the navigation and utility lists
\* and the short h1/h2/div/p with the title fragment.
trim_top_blocks(ns) ==
    decompose(ns, { <<k>> : k \in { j \in 1..Min(Len(ns), TopBlocks) :
        LET el == ns[j]
            links == find_all(el.kids, {"a"})
        IN  \/ /\ el.tag \in {"ul", "ol"}
               /\ \/ Len(links) >= NavLinks /\ text_len(el) < NavLen
                  \/ OnlyUtils(el)
                  \/ Len(links) <= UtilLinks /\ text_len(el) < UtilLen
            \/ /\ el.tag \in {"h1", "h2", "div", "p"}
               /\ HasTitle(el.kids)
               /\ text_len(el) < TitleLen } })

\* Pass 5: the first top-level h1/h2/div/p, when it is short and has the
\* title fragment.
drop_leading_title(ns) ==
    LET tops == { k \in 1..Len(ns) : ns[k].tag \in {"h1", "h2", "div", "p"} }
        top  == CHOOSE k \in tops : \A j \in tops : k <= j
    IN  IF tops # {} /\ HasTitle(ns[top].kids) /\ text_len(ns[top]) < TitleLen
        THEN decompose(ns, {<<top>>})
        ELSE ns

\* txt.lower().startswith("introduzione")
StartsWithIntro(n) ==
    Strings(n.kids) # <<>> /\ Strings(n.kids)[1].kind \in NoiseKinds

\* Pass 6: the first of the first top-level h1/h2/h3/div/p whose text starts
\* with "introduzione".
drop_introduzione(ns) ==
    LET hits == { k \in 1..Min(Len(ns), FirstBlocks) :
                    ns[k].tag \in {"h1", "h2", "h3", "div", "p"} /\ StartsWithIntro(ns[k]) }
    IN  IF hits = {} THEN ns
        ELSE decompose(ns, {<<CHOOSE k \in hits : \A j \in hits : k <= j>>})

\* attr.startswith("data-") or attr.startswith("on"), of the attributes of
\* the model.
IsTrackerAttr(name) == name \in {"data-src", "data-original", "data-lazy-src", "onclick"}

\* del tag[a] for these attributes, on every tag.
RECURSIVE drop_tracker_attrs(_)
drop_tracker_attrs(ns) ==
    IF ns = <<>> THEN <<>>
    ELSE <<[Head(ns) EXCEPT
              !.attrs = SelectSeq(Head(ns).attrs, LAMBDA a : ~IsTrackerAttr(a.name)),
              !.kids  = drop_tracker_attrs(Head(ns).kids)]>>
         \o drop_tracker_attrs(Tail(ns))

\* clean_html_keep_structure, from the parsed document on: raw.body is the
\* body of soup as BeautifulSoup(html_content, "lxml") gives it, after the
\* title patterns were cut out of the markup.  The result is soup with, as
\* main_root, the id of the main root that was detected (0 for None).
clean_html_keep_structure(raw) ==
    LET s0  == remove_scripts(raw.body)
        mr  == detect_main_root(s0)
        s1  == remove_chrome_tags(s0, mr)
        s2  == remove_chrome_blocks(s1, mr)
        s3  == remove_empty(s2)
        s4  == remove_noise(s3, mr)
        s5  == remove_overlays(s4)
        s6  == remove_utility_lists(s5, mr)
        s7  == remove_title_banners(s6)
        s8  == trim_top_blocks(s7)
        s9  == drop_leading_title(s8)
        s10 == drop_introduzione(s9)
    IN  [title |-> raw.title, body |-> drop_tracker_attrs(s10), main_root |-> mr]

\* --------------------------------------------------------- image fetching

\* What a server answers to one GET: "fail" (an exception, a timeout, a 404
\* status) or the Content-Type of a 200 response.
Responses == {"fail", "image/jpeg", "text/html"}

\* download_image(url, session): [content, ext], content "none" on failure.
\* A src with no scheme (a protocol-relative //host/x, a package-local
\* images/x) makes session.get raise, which the except clause turns into
\* (None, None).
download_image(src, resp) ==
    IF src.kind # "http" \/ resp = "fail"
    THEN [content |-> <<>>, ext |-> "", ok |-> FALSE]
    ELSE LET ext ==
                 CASE resp \in {"image/jpeg", "image/jpg"} -> ".jpg"
                   [] resp = "image/png"     -> ".png"
                   [] resp = "image/gif"     -> ".gif"
                   [] resp = "image/webp"    -> ".webp"
                   [] resp = "image/svg+xml" -> ".svg"
                   [] OTHER ->
                        IF src.suffix \in {".jpg", ".jpeg", ".png", ".gif", ".webp", ".svg"}
                        THEN src.suffix ELSE ".bin"
         IN  [content |-> src.ref, ext |-> ext, ok |-> TRUE]

\* "https:" + src for a protocol-relative src.
WithHttps(src) == [src EXCEPT !.kind = "http"]

\* The media type embed_images_and_rewrite gives a downloaded image.
MediaOfExt(ext) ==
    CASE ext \in {".jpg", ".jpeg"} -> "image/jpeg"
      [] ext = ".png"  -> "image/png"
      [] ext = ".gif"  -> "image/gif"
      [] ext = ".webp" -> "image/webp"
      [] ext = ".svg"  -> "image/svg+xml"
      [] OTHER         -> "application/octet-stream"

\* The extension embed_images_and_rewrite gives a data: URI of this mime.
ExtOfMime(mime) ==
    CASE mime \in {"image/jpeg", "image/jpg"} -> ".jpg"
      [] mime = "image/png"     -> ".png"
      [] mime = "image/gif"     -> ".gif"
      [] mime = "image/webp"    -> ".webp"
      [] mime = "image/svg+xml" -> ".svg"
      [] OTHER                  -> ".bin"

LocalSrc(name) == [kind |-> "local", ref |-> name, mime |-> "", suffix |-> ""]

EpubItem(name, content, media) ==
    [file_name |-> name, content |-> content, media_type |-> media]

\* EmbedImg, but a src that cannot be fetched is taken off the <img>.
EmbedImgDropsFailed(img, st, prefix, resps) ==
    LET k    == st.k + 1
        skip == [node |-> img, st |-> [st EXCEPT !.k = k]]
        drop == [node |-> [img EXCEPT !.src = NoSrc], st |-> [st EXCEPT !.k = k]]
        put(content, ext, media) ==
            LET name == ImagesDir \o Fname(prefix, st.counter, ext)
            IN  [node |-> [img EXCEPT !.src = LocalSrc(name)],
                 st   |-> [counter |-> st.counter + 1,
                           items   |-> Append(st.items, EpubItem(name, content, media)),
                           k       |-> k]]
    IN  IF img.src.kind = "none" THEN skip
        ELSE IF img.tiny THEN skip
        ELSE IF img.src.kind = "data"
             THEN put(img.src.ref, ExtOfMime(img.src.mime), img.src.mime)
        ELSE IF img.src.kind = "baddata" THEN skip
        ELSE LET d1 == download_image(img.src, resps[k])
                 d2 == IF ~d1.ok /\ img.src.kind = "protorel"
                       THEN download_image(WithHttps(img.src), resps[k])
                       ELSE d1
             IN  IF ~d2.ok THEN drop
                 ELSE put(d2.content, d2.ext, MediaOfExt(d2.ext))

\* One turn of the loop of embed_images_and_rewrite, on one <img>.  st is
\* [counter, items, k]: the local counter, book's image items and the number
\* of <img> seen so far; resps[k] is the server's answer for the k-th <img>.
\* The result is the <img> as the turn leaves it and the new st.
EmbedImg(img, st, prefix, resps) ==
    LET k    == st.k + 1
        skip == [node |-> img, st |-> [st EXCEPT !.k = k]]
        put(content, ext, media) ==
            LET name == ImagesDir \o Fname(prefix, st.counter, ext)
            IN  [node |-> [img EXCEPT !.src = LocalSrc(name)],
                 st   |-> [counter |-> st.counter + 1,
                           items   |-> Append(st.items, EpubItem(name, content, media)),
                           k       |-> k]]
    IN  IF img.src.kind = "none" THEN skip
        ELSE IF img.tiny THEN skip
        ELSE IF img.src.kind = "data"
             THEN put(img.src.ref, ExtOfMime(img.src.mime), img.src.mime)
        ELSE IF img.src.kind = "baddata" THEN skip
        ELSE LET d1 == download_image(img.src, resps[k])
                 d2 == IF ~d1.ok /\ img.src.kind = "protorel"
                       THEN download_image(WithHttps(img.src), resps[k])
                       ELSE d1
             IN  IF ~d2.ok THEN skip
                 ELSE put(d2.content, d2.ext, MediaOfExt(d2.ext))

\* The loop of embed_images_and_rewrite over soup.find_all("img"), in
\* document order, rewriting each src in place.
RECURSIVE EmbedNodes(_, _, _, _)
EmbedNodes(ns, st, prefix, resps) ==
    IF ns = <<>> THEN [nodes |-> <<>>, st |-> st]
    ELSE LET n  == Head(ns)
             r1 == IF n.tag = "img" THEN EmbedImg(n, st, prefix, resps)
                   ELSE LET sub == EmbedNodes(n.kids, st, prefix, resps)
                        IN  [node |-> [n EXCEPT !.kids = sub.nodes], st |-> sub.st]
             r2 == EmbedNodes(Tail(ns), r1.st, prefix, resps)
         IN  [nodes |-> <<r1.node>> \o r2.nodes, st |-> r2.st]

\* embed_images_and_rewrite(soup, book, session, img_prefix): the rewritten
\* body and book's image items after it.
embed_images_and_rewrite(body, items, prefix, resps) ==
    LET r == EmbedNodes(body, [counter |-> 1, items |-> items, k |-> 0], prefix, resps)
    IN  [body |-> r.nodes, items |-> r.st.items, counter |-> r.st.counter]

\* pick_cover_from_first_image(soup, book, session): the items it adds to
\* book (none when it returns None).  book.set_cover adds the cover image
\* a second time, under "cover.jpg".
pick_cover_from_first_image(body, resp) ==
    LET imgs == find_all(body, {"img"})
        src  == imgs[1].src
        add(content, media) ==
            <<EpubItem(ImagesDir \o CoverName, content, media),
              EpubItem(CoverName, content, "image/jpeg")>>
    IN  IF imgs = <<>> THEN <<>>
        ELSE IF src.kind = "none" THEN <<>>
        ELSE IF src.kind = "data" THEN add(src.ref, src.mime)
        ELSE IF src.kind = "baddata" THEN <<>>
        ELSE LET d == download_image(src, resp)
             IN  IF ~d.ok THEN <<>>
                 ELSE add(d.content,
                          IF d.ext \in {".jpg", ".jpeg", ".png", ".gif", ".webp"}
                          THEN MediaOfExt(d.ext) ELSE "image/jpeg")

\* ------------------------------------------------------------ translation

\* _translate_texts, batch branch: attempt runs over range(5); the first
\* `fails` calls of translate_batch raise and the next one returns.
\* [ok, calls, errors]: whether a result was returned, the calls made and
\* the calls that raised.
RECURSIVE BatchLoop(_, _)
BatchLoop(attempt, fails) ==
    IF attempt >= TranslateAttempts
    THEN [ok |-> FALSE, calls |-> attempt, errors |-> attempt]
    ELSE IF attempt >= fails
    THEN [ok |-> TRUE, calls |-> attempt + 1, errors |-> attempt]
    ELSE BatchLoop(attempt + 1, fails)

\* _translate_texts, but returning the texts as they are once the
\* attempts are used up.
translate_texts_swallow(fails) == [BatchLoop(0, fails) EXCEPT !.ok = TRUE]

\* _translate_texts(translator, texts) with a translator that has
\* translate_batch: ok FALSE is the RuntimeError it raises.
translate_texts(fails) == BatchLoop(0, fails)

TranslateTargets ==
    {"h1", "h2", "h3", "h4", "h5", "h6", "p", "li", "blockquote",
     "figcaption", "caption", "span", "div"}

\* The tags translate_soup_in_place collects: the targets with text.
TranslateNodes(body) ==
    SelectSeq(find_all(body, TranslateTargets), LAMBDA n : get_text_len(<<n>>) > 0)

\* What the translator returns for one text, by its behaviour `how`:
\* a text of the same length and kind, a short sentence, a utility word
\* (such as "Delete"), or the empty string.
Translated(n, how) ==
    CASE how = "same"  -> Txt(get_text_len(<<n>>), TextKind(<<n>>))
      [] how = "short" -> Txt(40, "prose")
      [] how = "noise" -> Txt(6, "noise")
      [] OTHER         -> Txt(0, "prose")

TranslatorOutputs == {"same", "short", "noise", "empty"}

\* The assignment loop of translate_soup_in_place: every collected tag
\* loses its children and gets the translated string.  A collected tag
\* inside another collected tag is detached with the outer tag's children.
RECURSIVE AssignBack(_, _)
AssignBack(ns, how) ==
    IF ns = <<>> THEN <<>>
    ELSE LET n == Head(ns)
             m == IF n.tag \in TranslateTargets /\ get_text_len(<<n>>) > 0
                  THEN [n EXCEPT !.kids = <<Translated(n, how)>>]
                  ELSE [n EXCEPT !.kids = AssignBack(n.kids, how)]
         IN  <<m>> \o AssignBack(Tail(ns), how)

\* ---------------------------------------------------------- chapter gate

VisibleTags ==
    {"img", "p", "h1", "h2", "h3", "h4", "h5", "h6", "ul", "ol", "li", "a",
     "blockquote", "table"}

BlockTags ==
    {"p", "h1", "h2", "h3", "h4", "h5", "h6", "ul", "ol", "li", "blockquote",
     "table", "img"}

ValidTags ==
    {"p", "img", "h1", "h2", "h3", "ul", "ol", "li", "a", "blockquote", "table"}

HasTag(ns, tags) == find_all(ns, tags) # <<>>

\* Whether the markup starts with non-blank text, before any element.
RECURSIVE LeadText(_)
LeadText(ns) ==
    IF ns = <<>> THEN FALSE
    ELSE IF Head(ns).tag # "#text" THEN FALSE
    ELSE IF Head(ns).len > 0 THEN TRUE
    ELSE LeadText(Tail(ns))

\* inner == "": the body holds nothing, or blank strings only.
InnerEmpty(inner) == \A i \in 1..Len(inner) : inner[i].tag = "#text" /\ inner[i].len = 0

\* has_visible: a content tag in inner, or any word character in inner (the
\* name of any tag is made of word characters).
has_visible(inner) ==
    \/ HasTag(inner, VisibleTags)
    \/ \E i \in 1..Len(Flatten(inner)) : Flatten(inner)[i].tag # "#text"
    \/ HasWord(inner)

\* What BeautifulSoup(inner, "lxml") yields: plain, has_img, p_count and
\* a_count.  lxml puts text that starts a fragment into a <p> of its own.
BsTmp(inner) ==
    [plain   |-> get_text_len(inner),
     kind    |-> TextKind(inner),
     has_img |-> HasTag(inner, {"img"}),
     p_count |-> Len(find_all(inner, {"p"})) + (IF LeadText(inner) THEN 1 ELSE 0),
     a_count |-> Len(find_all(inner, {"a"}))]

\* junk_re.match(plain): one or more of: a book-title line (which runs to the
\* end of the line), highlight, delete, add note, share quote, introduzione.
junk_re(inner) ==
    LET ts == Strings(inner)
        RECURSIVE m(_)
        m(i) == IF i > Len(ts) THEN TRUE
                ELSE IF ts[i].kind = "title" THEN TRUE
                ELSE IF ts[i].kind = "noise" THEN m(i + 1)
                ELSE FALSE
    IN  ts # <<>> /\ m(1)

forced_keep(t) == t.plain >= ForcedKeepLen

\* looks_junk with the bound of very_short.
looks_junk_short(inner, t) == ~t.has_img /\ t.plain < VeryShortLen /\ junk_re(inner)

looks_junk(inner, t) == ~t.has_img /\ t.plain < JunkLen /\ junk_re(inner)

very_short(t) ==
    ~t.has_img /\ t.plain < VeryShortLen /\ t.p_count = 0 /\ t.a_count <= VeryShortLinks

body_too_small(t) == ~t.has_img /\ t.plain < TooSmallLen /\ t.p_count <= 1

\* The condition of the first [SKIP] in build_book.
SkipUiOnly(soup) ==
    LET inner == soup.body
        t     == BsTmp(inner)
    IN  /\ ~forced_keep(t)
        /\ \/ InnerEmpty(inner) \/ ~has_visible(inner)
           \/ looks_junk(inner, t)
           \/ very_short(t)
           \/ (soup.title = "chrome" /\ body_too_small(t))

\* The reshape left out: inner stays as it is.
ReshapeLeftOut(inner) == inner

\* The reshape: with no <p> and no block tag in inner, inner becomes the
\* paragraphs of plain (plain has no blank line: one paragraph, or none).
Reshape(inner) ==
    LET t == BsTmp(inner)
    IN  IF t.p_count = 0 /\ ~HasTag(inner, BlockTags)
        THEN IF t.plain > 0 THEN <<El("p", <<Txt(t.plain, t.kind)>>)>> ELSE <<>>
        ELSE inner

\* is_valid: lxml's parse of ch_content has text at the start of <body>, or
\* an element of interest in it.
is_valid(inner) ==
    LET text_ok  == LeadText(inner)
        elems_ok == HasTag(inner, ValidTags)
    IN  text_ok \/ elems_ok

\* _h1_text: the text of the first <h1> of the document.
h1_text(body) ==
    LET hs == find_all(body, {"h1"})
    IN  IF hs = <<>> THEN 0 ELSE get_text_len(<<hs[1]>>)

\* --------------------------------------------------- flattened document

\* The markup of a body, as far as the passes over html_for_pdf look at it:
\* its reference attributes, srcset attributes, url(...) of style attributes
\* and <link> tags, in document order, each a token [name, val].
RECURSIVE Refs(_)
Refs(ns) ==
    IF ns = <<>> THEN <<>>
    ELSE LET n == Head(ns)
             own == IF n.tag = "link" THEN <<[name |-> "<link>", val |-> NoSrc]>>
                    ELSE (IF n.tag = "img" /\ n.src.kind # "none"
                          THEN <<[name |-> "src", val |-> n.src]>> ELSE <<>>)
                         \o SelectSeq(n.attrs, LAMBDA a :
                                a.name \notin {"id", "class"} /\ a.val.kind # "absolute")
         IN  own \o Refs(n.kids) \o Refs(Tail(ns))

\* The attributes of attr_pattern.
RefNames ==
    {"src", "data", "data-src", "data-original", "data-lazy-src", "href", "xlink:href"}

\* The extensions of ebooklib's ITEM_IMAGE that build_book gives a name
\* (get_type goes by the extension of the file name).
ImageExts == {".jpg", ".jpeg", ".gif", ".png"}

\* book.get_items_of_type(ITEM_IMAGE); the EpubCover that set_cover adds as
\* "cover.jpg" is of type ITEM_COVER.
img_items(items) ==
    SelectSeq(items, LAMBDA it :
        /\ it.file_name # CoverName
        /\ \E e \in ImageExts : HasSuffix(it.file_name, ExtChars(e)))

\* _norm(path): the key under which img_items is looked up; <<>> stands for
\* a key that no item has (a URL with a scheme, a data: value, an anchor).
norm(val) ==
    IF val.kind = "local" THEN val.ref
    ELSE IF val.kind = "path"
    THEN (IF HasPrefix(val.ref, ImagesDir) THEN val.ref ELSE ImagesDir \o val.ref)
    ELSE <<>>

\* f"data:{mime};base64,{b64data}" of an item.
DataOf(item) ==
    [kind |-> "data", ref |-> item.content, mime |-> item.media_type, suffix |-> ""]

\* img_items[key], where the key is there.
Inlined(val, items) ==
    LET hits == SelectSeq(img_items(items), LAMBDA it : it.file_name = norm(val))
    IN  IF hits = <<>> THEN val ELSE DataOf(hits[Len(hits)])

\* "#", the value _neutralize_external writes.
Hash == [kind |-> "anchor", ref |-> <<>>, mime |-> "", suffix |-> ""]

\* url(''), the value the pass over the remaining url(...) writes.
BlankUrl == [kind |-> "blank", ref |-> <<>>, mime |-> "", suffix |-> ""]

\* _attr_repl
attr_repl(tok, items) ==
    IF tok.name \in RefNames THEN [tok EXCEPT !.val = Inlined(tok.val, items)] ELSE tok

\* _url_repl, then the pass over the url(...) that are not data:
url_repl(tok, items) ==
    IF tok.name = "style"
    THEN LET v == Inlined(tok.val, items)
         IN  [tok EXCEPT !.val = IF v.kind \in {"data", "baddata"} THEN v ELSE BlankUrl]
    ELSE tok

\* _neutralize_external, without its second test: only http(s) and // values
\* are rewritten.
neutralize_external_http_only(tok) ==
    IF tok.name \in RefNames /\ tok.val.kind \in {"http", "protorel"}
    THEN [tok EXCEPT !.val = Hash]
    ELSE tok

\* _neutralize_external
neutralize_external(tok) ==
    IF tok.name \in RefNames
    THEN IF tok.val.kind \in {"http", "protorel"} THEN [tok EXCEPT !.val = Hash]
         ELSE IF tok.val.kind \notin {"data", "baddata", "anchor", "mailto", "javascript"}
         THEN [tok EXCEPT !.val = Hash]
         ELSE tok
    ELSE tok

Map(q, F(_)) == [i \in 1..Len(q) |-> F(q[i])]

\* The passes of the inlining block over the markup of one body, in the
\* order of the code: attributes, url(...), srcset, external references,
\* <link> tags.
inline_body(refs, items) ==
    LET r1 == Map(refs, LAMBDA t : attr_repl(t, items))
        r2 == Map(r1, LAMBDA t : url_repl(t, items))
        r3 == SelectSeq(r2, LAMBDA t : t.name # "srcset")
        r4 == Map(r3, neutralize_external)
    IN  SelectSeq(r4, LAMBDA t : t.name # "<link>")

\* One part of html_for_pdf.
Part(kind, chap, refs) == [part |-> kind, chap |-> chap, refs |-> refs]

\* The loop over pdf_chapters that fills parts, from the i-th chapter on.
RECURSIVE parts(_, _)

\* parts, but with the marker before the first chapter as well.
parts_break_all(chs, i) ==
    IF i > Len(chs) THEN <<>>
    ELSE <<Part("pagebreak", i, <<>>)>>
         \o (IF chs[i].include_h1 THEN <<Part("h1", i, <<>>)>> ELSE <<>>)
         \o <<Part("body", i, chs[i].refs)>>
         \o parts(chs, i + 1)

parts(chs, i) ==
    IF i > Len(chs) THEN <<>>
    ELSE (IF i > 1 THEN <<Part("pagebreak", i, <<>>)>> ELSE <<>>)
         \o (IF chs[i].include_h1 THEN <<Part("h1", i, <<>>)>> ELSE <<>>)
         \o <<Part("body", i, chs[i].refs)>>
         \o parts(chs, i + 1)

\* html_for_pdf as it is handed to pdfkit: the parts, with the inlining
\* block applied.
flattened(chs, items) ==
    Map(parts(chs, 1), LAMBDA x : [x EXCEPT !.refs = inline_body(x.refs, items)])

\* ------------------------------------------------------------------ state

VARIABLES
    pc,            \* where the run is: "main", "build_book", "loop", "embed",
                   \* "translate", "gate", "next", "pdf", "done"
    args,          \* the command line: [input_ok, epub_output, pdf_output, lang_out]
    files,         \* len(files): the number of HTML files found
    file_idx,      \* file_idx
    chap_index,    \* chap_index
    chapters,      \* chapters: [file_name, title, file] per EpubHtml
    spine_items,   \* spine_items: "nav", then the chapters' file names
    pdf_chapters,  \* pdf_chapters: [title, file, include_h1, refs]
    book,          \* the image items added to book, in order
    cover_set,     \* cover_set
    translator,    \* "None" or "google"
    soup,          \* the document of the current file: [title, body, main_root]
    counter,       \* the local counter of the last embed_images_and_rewrite
    failed_attempts, \* the translate_batch calls that raised in the last _translate_texts
    verdict,       \* what became of the current file: "", "skip_ui", "skip_invalid", "chapter"
    exit_code,     \* the process's exit status, -1 while it runs
    epub_written,  \* epub.write_epub has written the package
    pdf_written,   \* pdfkit.from_file has written the PDF
    steps,         \* the calls made for the current file, in order
    toc,           \* book.toc, as the chapters' file names
    spine,         \* book.spine
    html_for_pdf,  \* html_for_pdf as handed to pdfkit.from_file
    pdf_report     \* the [PDF] message of the run: "", "no_pdfkit", "failed"

vars ==
    <<pc, args, files, file_idx, chap_index, chapters, spine_items, pdf_chapters,
      book, cover_set, translator, soup, counter, failed_attempts, verdict, exit_code,
      epub_written, pdf_written, steps, toc, spine, html_for_pdf, pdf_report>>

\* What the loop leaves alone.
run_vars == <<args, files, translator>>

\* What only the end of build_book writes.
out_vars == <<epub_written, pdf_written, toc, spine, html_for_pdf, pdf_report>>

NoSoup == [title |-> "none", body |-> <<>>, main_root |-> 0]

Nav == <<"n", "a", "v">>

Init ==
    /\ pc = "main"
    /\ args \in [input_ok : BOOLEAN, epub_output : BOOLEAN, pdf_output : BOOLEAN,
                  lang_out : BOOLEAN]
    /\ files = 0
    /\ file_idx = 0
    /\ chap_index = 0
    /\ chapters = <<>>
    /\ spine_items = <<>>
    /\ pdf_chapters = <<>>
    /\ book = <<>>
    /\ cover_set = FALSE
    /\ translator = "None"
    /\ soup = NoSoup
    /\ counter = 0
    /\ failed_attempts = 0
    /\ verdict = ""
    /\ exit_code = -1
    /\ epub_written = FALSE
    /\ pdf_written = FALSE
    /\ steps = <<>>
    /\ toc = <<>>
    /\ spine = <<>>
    /\ html_for_pdf = <<>>
    /\ pdf_report = ""

\* sys.exit(code)
Exit(code) == pc' = "done" /\ exit_code' = code

\* main: the two argument checks, then the call of build_book.
Main ==
    /\ pc = "main"
    /\ IF ~args.input_ok THEN Exit(2)
       ELSE IF ~args.epub_output /\ ~args.pdf_output THEN Exit(2)
       ELSE pc' = "build_book" /\ exit_code' = exit_code
    /\ UNCHANGED <<run_vars, out_vars, file_idx, chap_index, chapters, spine_items,
                   pdf_chapters, book, cover_set, soup, counter,
                   failed_attempts, verdict, steps>>

\* build_book up to its loop: list_html_files found n files; with
\* --lang-out given and different from the language, _get_google_translator
\* returned a translator (avail) or None.
BuildBookStart ==
    /\ pc = "build_book"
    /\ \E n \in 0..MaxFiles, avail \in BOOLEAN :
          /\ files' = n
          /\ IF n = 0
             THEN Exit(1) /\ UNCHANGED <<translator, spine_items>>
             ELSE IF args.lang_out /\ ~avail
             THEN Exit(3) /\ UNCHANGED <<translator, spine_items>>
             ELSE /\ pc' = "loop"
                  /\ exit_code' = exit_code
                  /\ spine_items' = <<Nav>>
                  /\ translator' = IF args.lang_out THEN "google" ELSE "None"
    /\ UNCHANGED <<args, out_vars, file_idx, chap_index, chapters, pdf_chapters, book,
                   cover_set, soup, counter, failed_attempts, verdict, steps>>

\* for file in files: the next file is read and cleaned.  `pages` is the set
\* of documents clean_html_keep_structure may return.
ReadAndClean(pages) ==
    /\ pc = "loop"
    /\ file_idx < files
    /\ \E page \in pages : soup' = page
    /\ file_idx' = file_idx + 1
    /\ steps' = <<"clean_html_keep_structure">>
    /\ pc' = "embed"
    /\ UNCHANGED <<run_vars, out_vars, chap_index, chapters, spine_items, pdf_chapters,
                   book, cover_set, counter, failed_attempts, verdict, exit_code>>

NImgs(body) == Len(find_all(body, {"img"}))

\* soup, _ = embed_images_and_rewrite(soup, book, session, img_prefix=f"img_{file_idx}_")
EmbedImages ==
    /\ pc = "embed"
    /\ \E resps \in [1..NImgs(soup.body) -> Responses] :
          LET r == embed_images_and_rewrite(soup.body, book, ImgPrefix(file_idx), resps)
          IN  /\ soup' = [soup EXCEPT !.body = r.body]
              /\ book' = r.items
              /\ counter' = r.counter
    /\ steps' = Append(steps, "embed_images_and_rewrite")
    /\ pc' = "translate"
    /\ UNCHANGED <<run_vars, out_vars, file_idx, chap_index, chapters, spine_items,
                   pdf_chapters, cover_set, failed_attempts, verdict, exit_code>>

\* Translate, but with the call of translate_soup_in_place left out.
TranslateSkipped ==
    /\ pc = "translate"
    /\ pc' = "gate"
    /\ UNCHANGED <<run_vars, out_vars, file_idx, chap_index, chapters, spine_items,
                   pdf_chapters, book, cover_set, soup, counter, failed_attempts,
                   verdict, exit_code, steps>>

\* if translator is not None: translate_soup_in_place(soup, translator).
\* The RuntimeError of _translate_texts is caught nowhere: the interpreter
\* prints the traceback and exits with status 1.
Translate ==
    /\ pc = "translate"
    /\ steps' = IF translator = "None" THEN steps
                ELSE Append(steps, "translate_soup_in_place")
    /\ IF translator = "None" \/ TranslateNodes(soup.body) = <<>>
       THEN /\ pc' = "gate"
            /\ UNCHANGED <<soup, failed_attempts, exit_code>>
       ELSE \E fails \in 0..(TranslateAttempts + 1), how \in TranslatorOutputs :
              LET r == translate_texts(fails)
              IN  /\ failed_attempts' = r.errors
                  /\ IF r.ok
                     THEN /\ soup' = [soup EXCEPT !.body = AssignBack(soup.body, how)]
                          /\ pc' = "gate"
                          /\ UNCHANGED exit_code
                     ELSE /\ Exit(1)
                          /\ UNCHANGED soup
    /\ UNCHANGED <<run_vars, out_vars, file_idx, chap_index, chapters, spine_items,
                   pdf_chapters, book, cover_set, counter, verdict>>

\* chap_title's origin and include_h1_in_pdf.
ChapTitle(s) ==
    IF h1_text(s.body) > 0 THEN "h1" ELSE IF s.title # "none" THEN "doc" ELSE "file"

\* include_h1_in_pdf, but true for every page.
include_h1_always(s) == TRUE

\* include_h1_in_pdf = bool(_h1_text)
include_h1_in_pdf(s) == h1_text(s.body) > 0

\* Gate, but once a page was skipped no later page is accepted.
GateStopsAtSkip ==
    /\ pc = "gate"
    /\ \E resp \in Responses :
          LET cover == IF cover_set THEN <<>> ELSE pick_cover_from_first_image(soup.body, resp)
              inner == Reshape(soup.body)
              name  == ChapterFile(chap_index + 1)
              title == ChapTitle(soup)
          IN  /\ book' = book \o cover
              /\ cover_set' = (cover_set \/ cover # <<>>)
              /\ IF SkipUiOnly(soup)
                 THEN /\ verdict' = "skip_ui"
                      /\ UNCHANGED <<chap_index, chapters, spine_items, pdf_chapters>>
                 ELSE /\ chap_index' = chap_index + 1
                      /\ IF ~is_valid(inner) \/ Len(chapters) < file_idx - 1
                         THEN /\ verdict' = "skip_invalid"
                              /\ UNCHANGED <<chapters, spine_items, pdf_chapters>>
                         ELSE /\ verdict' = "chapter"
                              /\ chapters' = Append(chapters,
                                     [file_name |-> name, title |-> title, file |-> file_idx])
                              /\ spine_items' = Append(spine_items, name)
                              /\ pdf_chapters' = Append(pdf_chapters,
                                     [title |-> title, file |-> file_idx,
                                      include_h1 |-> include_h1_in_pdf(soup),
                                      refs |-> Refs(inner)])
    /\ steps' = Append(steps, "gate")
    /\ pc' = "next"
    /\ UNCHANGED <<run_vars, out_vars, file_idx, soup, counter, failed_attempts,
                   exit_code>>

\* Gate, but an accepted page is not put on the spine.
GateOffSpine ==
    /\ pc = "gate"
    /\ \E resp \in Responses :
          LET cover == IF cover_set THEN <<>> ELSE pick_cover_from_first_image(soup.body, resp)
              inner == Reshape(soup.body)
              name  == ChapterFile(chap_index + 1)
              title == ChapTitle(soup)
          IN  /\ book' = book \o cover
              /\ cover_set' = (cover_set \/ cover # <<>>)
              /\ IF SkipUiOnly(soup)
                 THEN /\ verdict' = "skip_ui"
                      /\ UNCHANGED <<chap_index, chapters, spine_items, pdf_chapters>>
                 ELSE /\ chap_index' = chap_index + 1
                      /\ IF ~is_valid(inner)
                         THEN /\ verdict' = "skip_invalid"
                              /\ UNCHANGED <<chapters, spine_items, pdf_chapters>>
                         ELSE /\ verdict' = "chapter"
                              /\ chapters' = Append(chapters,
                                     [file_name |-> name, title |-> title, file |-> file_idx])
                              /\ spine_items' = spine_items
                              /\ pdf_chapters' = Append(pdf_chapters,
                                     [title |-> title, file |-> file_idx,
                                      include_h1 |-> include_h1_in_pdf(soup),
                                      refs |-> Refs(inner)])
    /\ steps' = Append(steps, "gate")
    /\ pc' = "next"
    /\ UNCHANGED <<run_vars, out_vars, file_idx, soup, counter, failed_attempts,
                   exit_code>>

\* The rest of the loop body: the title, the cover, the gate, the reshape,
\* the validity check and the appends.
Gate ==
    /\ pc = "gate"
    /\ \E resp \in Responses :
          LET cover == IF cover_set THEN <<>> ELSE pick_cover_from_first_image(soup.body, resp)
              inner == Reshape(soup.body)
              name  == ChapterFile(chap_index + 1)
              title == ChapTitle(soup)
          IN  /\ book' = book \o cover
              /\ cover_set' = (cover_set \/ cover # <<>>)
              /\ IF SkipUiOnly(soup)
                 THEN /\ verdict' = "skip_ui"
                      /\ UNCHANGED <<chap_index, chapters, spine_items, pdf_chapters>>
                 ELSE /\ chap_index' = chap_index + 1
                      /\ IF ~is_valid(inner)
                         THEN /\ verdict' = "skip_invalid"
                              /\ UNCHANGED <<chapters, spine_items, pdf_chapters>>
                         ELSE /\ verdict' = "chapter"
                              /\ chapters' = Append(chapters,
                                     [file_name |-> name, title |-> title, file |-> file_idx])
                              /\ spine_items' = Append(spine_items, name)
                              /\ pdf_chapters' = Append(pdf_chapters,
                                     [title |-> title, file |-> file_idx,
                                      include_h1 |-> include_h1_in_pdf(soup),
                                      refs |-> Refs(inner)])
    /\ steps' = Append(steps, "gate")
    /\ pc' = "next"
    /\ UNCHANGED <<run_vars, out_vars, file_idx, soup, counter, failed_attempts,
                   exit_code>>

\* The loop's back edge (the end of the body, or a continue): the names of
\* the iteration are bound anew by the next one.
Continue ==
    /\ pc = "next"
    /\ pc' = "loop"
    /\ soup' = NoSoup
    /\ verdict' = ""
    /\ failed_attempts' = 0
    /\ steps' = <<>>
    /\ UNCHANGED <<run_vars, out_vars, file_idx, chap_index, chapters, spine_items,
                   pdf_chapters, book, cover_set, counter, exit_code>>

\* Finish, but ending normally when no chapter is left.
FinishIgnoresEmpty ==
    /\ pc = "loop"
    /\ file_idx >= files
    /\ IF chapters = <<>>
       THEN Exit(0) /\ UNCHANGED <<epub_written, toc, spine>>
       ELSE /\ toc' = [i \in 1..Len(chapters) |-> chapters[i].file_name]
            /\ spine' = spine_items
            /\ epub_written' = args.epub_output
            /\ IF args.pdf_output
               THEN pc' = "pdf" /\ exit_code' = exit_code
               ELSE Exit(0)
    /\ UNCHANGED <<run_vars, file_idx, chap_index, chapters, spine_items,
                   pdf_chapters, book, cover_set, soup, counter,
                   failed_attempts, verdict, steps, pdf_written, html_for_pdf,
                   pdf_report>>

\* Finish, but writing the EPUB before it looks at chapters.
FinishWritesFirst ==
    /\ pc = "loop"
    /\ file_idx >= files
    /\ epub_written' = args.epub_output
    /\ IF chapters = <<>>
       THEN Exit(1) /\ UNCHANGED <<toc, spine>>
       ELSE /\ toc' = [i \in 1..Len(chapters) |-> chapters[i].file_name]
            /\ spine' = spine_items
            /\ IF args.pdf_output
               THEN pc' = "pdf" /\ exit_code' = exit_code
               ELSE Exit(0)
    /\ UNCHANGED <<run_vars, file_idx, chap_index, chapters, spine_items,
                   pdf_chapters, book, cover_set, soup, counter,
                   failed_attempts, verdict, steps, pdf_written, html_for_pdf,
                   pdf_report>>

\* After the loop: no chapter is fatal; else the toc, the spine and, when
\* asked for, the EPUB.
Finish ==
    /\ pc = "loop"
    /\ file_idx >= files
    /\ IF chapters = <<>>
       THEN Exit(1) /\ UNCHANGED <<epub_written, toc, spine>>
       ELSE /\ toc' = [i \in 1..Len(chapters) |-> chapters[i].file_name]
            /\ spine' = spine_items
            /\ epub_written' = args.epub_output
            /\ IF args.pdf_output
               THEN pc' = "pdf" /\ exit_code' = exit_code
               ELSE Exit(0)
    /\ UNCHANGED <<run_vars, file_idx, chap_index, chapters, spine_items,
                   pdf_chapters, book, cover_set, soup, counter,
                   failed_attempts, verdict, steps, pdf_written, html_for_pdf,
                   pdf_report>>

\* RenderPdf, but a failure of the rendering ends the run with status 1 and
\* takes the package back.
RenderPdfFatal ==
    /\ pc = "pdf"
    /\ \E pdfkit_ok \in BOOLEAN, render_ok \in BOOLEAN :
          IF ~pdfkit_ok
          THEN /\ pdf_report' = "no_pdfkit"
               /\ Exit(1)
               /\ epub_written' = FALSE
               /\ UNCHANGED <<html_for_pdf, pdf_written>>
          ELSE /\ html_for_pdf' = flattened(pdf_chapters, book)
               /\ pdf_written' = render_ok
               /\ pdf_report' = IF render_ok THEN "" ELSE "failed"
               /\ Exit(IF render_ok THEN 0 ELSE 1)
               /\ epub_written' = (epub_written /\ render_ok)
    /\ UNCHANGED <<run_vars, file_idx, chap_index, chapters, spine_items,
                   pdf_chapters, book, cover_set, soup, counter,
                   failed_attempts, verdict, steps, toc, spine>>

\* if pdf_output is not None: without pdfkit build_book prints a message and
\* returns; else html_for_pdf is built and handed to pdfkit.from_file, whose
\* failure is printed; either way the run ends normally.
RenderPdf ==
    /\ pc = "pdf"
    /\ \E pdfkit_ok \in BOOLEAN, render_ok \in BOOLEAN :
          IF ~pdfkit_ok
          THEN /\ pdf_report' = "no_pdfkit"
               /\ UNCHANGED <<html_for_pdf, pdf_written>>
          ELSE /\ html_for_pdf' = flattened(pdf_chapters, book)
               /\ pdf_written' = render_ok
               /\ pdf_report' = IF render_ok THEN "" ELSE "failed"
    /\ Exit(0)
    /\ UNCHANGED <<run_vars, file_idx, chap_index, chapters, spine_items,
                   pdf_chapters, book, cover_set, soup, counter,
                   failed_attempts, verdict, steps, toc, spine, epub_written>>

\* ------------------------------------------------------------- documents

DataPng  == [kind |-> "data", ref |-> <<"d", "1">>, mime |-> "image/png", suffix |-> ""]
BadData  == [kind |-> "baddata", ref |-> <<"d", "0">>, mime |-> "", suffix |-> ""]
HttpJpg  == [kind |-> "http", ref |-> <<"u", "1">>, mime |-> "", suffix |-> ".jpg"]
ProtoRel == [kind |-> "protorel", ref |-> <<"u", "2">>, mime |-> "", suffix |-> ""]

\* A document without a detected main root.
Page(title, body) == [title |-> title, body |-> body, main_root |-> 0]

P(n) == El("p", <<Txt(n, "prose")>>)

\* A list of four links.
Links4(n, k) ==
    El("ul", <<El("li", <<El("a", <<Txt(n, k)>>)>>), El("li", <<El("a", <<>>)>>),
               El("li", <<El("a", <<>>)>>), El("li", <<El("a", <<>>)>>)>>)

\* Six links in a row.
Links6(n, k) ==
    <<El("a", <<Txt(n, k)>>), El("a", <<>>), El("a", <<>>), El("a", <<>>),
      El("a", <<>>), El("a", <<>>)>>

\* The documents of the runs of Spec: an article with its heading, prose in
\* a bare <div>, a page of small headings and divs, a page of links under the
\* book's title, an illustrated page, a captioned figure, an empty page, a
\* page of a short heading over four links, a page that is one image.
RunPages ==
    { Page("other", <<El("h1", <<Txt(20, "prose")>>), P(400)>>),
      Page("other", <<El("div", <<Txt(250, "prose")>>)>>),
      Page("none", <<El("h4", <<Txt(30, "prose")>>), El("div", <<Txt(300, "prose")>>)>>),
      Page("chrome", <<Links4(40, "prose")>>),
      Page("other", <<Img(DataPng, FALSE), P(300)>>),
      Page("other", <<El("div", <<Img(HttpJpg, FALSE), Txt(100, "prose")>>)>>),
      Page("none", <<>>),
      Page("other", <<El("div", <<El("h2", <<Txt(20, "prose")>>), Links4(19, "prose")>>)>>),
      Page("other", <<Img(DataPng, FALSE)>>) }

\* The lengths of plain around the gate's thresholds.
PlainLens == {40, 159, 160, 199, 200, 239, 240, 399, 400}

TextKinds == {"prose", "noise", "title", "punct"}

\* The shapes of body the gate tells apart, around one text.
Shapes(t) ==
    { <<t>>,
      <<El("div", <<t>>)>>,
      <<El("p", <<t>>)>>,
      <<El("p", <<t>>), P(1)>>,
      <<El("h4", <<t>>)>>,
      <<El("h1", <<t>>)>>,
      <<El("span", <<t>>), Img(DataPng, FALSE)>>,
      <<Links4(t.len, t.kind)>>,
      Links6(t.len, t.kind) }

\* The documents of the runs of SpecGate.
GatePages ==
    { Page("none", <<>>), Page("chrome", Links6(0, "prose")),
      Page("other", Links6(0, "prose")) }
    \cup { Page(title, body) :
             title \in {"chrome", "other"},
             body \in UNION { Shapes(Txt(n, k)) : n \in PlainLens, k \in TextKinds } }

ImgKinds == {Img(DataPng, FALSE), Img(HttpJpg, FALSE), Img(DataPng, TRUE)}

\* The documents of the runs of SpecAssets: a paragraph and before it no
\* image, one image, or one image and an inline image; or one image alone.
MediaPages ==
    { Page("other", imgs \o <<P(300)>>) :
        imgs \in {<<>>} \cup { <<a>> : a \in ImgKinds }
                 \cup { <<a, Img(DataPng, FALSE)>> : a \in ImgKinds } }
    \cup { Page("other", <<Img(s, FALSE)>>) : s \in {ProtoRel, BadData, NoSrc, HttpJpg} }

DataSvg  == [kind |-> "data", ref |-> <<"d", "2">>, mime |-> "image/svg+xml", suffix |-> ""]
HttpUrl  == [kind |-> "http", ref |-> <<"u", "3">>, mime |-> "", suffix |-> ""]
Mailto   == [kind |-> "mailto", ref |-> <<"m", "1">>, mime |-> "", suffix |-> ""]
Anchor   == [kind |-> "anchor", ref |-> <<"s", "1">>, mime |-> "", suffix |-> ""]
\* A package-local path that no item has.
PathRef  == [kind |-> "path", ref |-> <<"x", ".", "p", "n", "g">>, mime |-> "", suffix |-> ""]
\* The path of the first image embedded for the first file, without images/.
PathImg  ==
    [kind |-> "path", ref |-> Fname(ImgPrefix(1), 1, ".png"), mime |-> "", suffix |-> ""]

Attr(n, v) == [name |-> n, val |-> v]

\* An element with attributes.
ElA(t, as, ks) == [El(t, ks) EXCEPT !.attrs = as]

\* An <img> with more attributes than src.
ImgA(s, as) == [Img(s, FALSE) EXCEPT !.attrs = as]

\* The documents of the runs of SpecPdf: a stylesheet <link> and prose with a
\* mailto: link and an external link; an inline PNG with a srcset and a style
\* with an external url(...) over prose; an inline SVG alone; prose with an
\* anchor and an unresolved local path; a style whose url(...) is the first
\* image of the first file.
PdfPages ==
    { Page("other", <<El("link", <<>>), P(300),
                      ElA("a", <<Attr("href", Mailto)>>, <<Txt(10, "prose")>>),
                      ElA("a", <<Attr("href", HttpUrl)>>, <<Txt(10, "prose")>>)>>),
      Page("other", <<ImgA(DataPng, <<Attr("srcset", HttpUrl)>>),
                      ElA("p", <<Attr("style", HttpUrl)>>, <<Txt(300, "prose")>>)>>),
      Page("other", <<Img(DataSvg, FALSE)>>),
      Page("other", <<P(300),
                      ElA("a", <<Attr("href", Anchor)>>, <<Txt(10, "prose")>>),
                      ElA("a", <<Attr("href", PathRef)>>, <<Txt(10, "prose")>>)>>),
      Page("other", <<ElA("p", <<Attr("style", PathImg)>>, <<Txt(300, "prose")>>)>>) }

ChromeWord == [kind |-> "chrome", ref |-> <<>>, mime |-> "", suffix |-> ""]
Absolute   == [kind |-> "absolute", ref |-> <<>>, mime |-> "", suffix |-> ""]

\* A <div> that can be told from the others of its document.
Div(i, as, ks) == [El("div", ks) EXCEPT !.id = i, !.attrs = as]

\* A parsed document, before the passes of clean_html_keep_structure.
Raw(title, body) == [title |-> title, body |-> body]

\* The parsed documents of the runs of SpecClean:
\*   a container of four paragraphs, one of them "Next page";
\*   a page image with its text layer in a positioned container;
\*   a short container of three paragraphs, the first with the book title;
\*   an article between a script, a navigation bar, a toolbar, a list of one
\*     link and a footer, with an empty <span> in it;
\*   a heading and a paragraph before a small "Next page" block;
\*   a container with a small toolbar inside it.
\* No document has two positioned elements or two elements with the title
\* fragment, so that what a walk does after it deleted the element under it
\* plays no role.
RawPages ==
    { Raw("other", <<Div(1, <<>>, <<P(300), El("p", <<Txt(9, "phrase")>>), P(300), P(300)>>)>>),
      Raw("other", <<Img(DataPng, FALSE),
                     Div(1, <<Attr("style", Absolute)>>, <<P(100), P(100), P(100)>>)>>),
      Raw("other", <<Div(1, <<>>, <<El("p", <<Txt(30, "title")>>), P(50), P(50)>>)>>),
      Raw("other", <<El("script", <<>>),
                     El("nav", <<Txt(20, "prose")>>),
                     Div(1, <<Attr("onclick", NoSrc)>>,
                         <<El("h1", <<Txt(20, "prose")>>), P(400), P(300), P(200),
                           El("span", <<>>)>>),
                     Div(2, <<Attr("class", ChromeWord)>>, <<Txt(30, "prose")>>),
                     El("ul", <<El("li", <<El("a", <<Txt(10, "prose")>>)>>)>>),
                     El("footer", <<Txt(20, "prose")>>)>>),
      Raw("other", <<El("h2", <<Txt(20, "prose")>>), P(400),
                     Div(1, <<>>, <<Txt(9, "phrase")>>)>>),
      Raw("other", <<Div(1, <<>>, <<P(200), P(200), P(200),
                                     Div(2, <<Attr("class", ChromeWord)>>,
                                         <<Txt(30, "prose")>>)>>)>>) }

\* --------------------------------------------------------- specifications

Steps ==
    \/ Main
    \/ BuildBookStart
    \/ EmbedImages
    \/ Translate
    \/ Gate
    \/ Continue
    \/ Finish
    \/ RenderPdf

Next == ReadAndClean(RunPages) \/ Steps

Spec == Init /\ [][Next]_vars

\* The runs over GatePages, with both outputs asked for and no translation.
InitFixed ==
    /\ Init
    /\ args = [input_ok |-> TRUE, epub_output |-> TRUE, pdf_output |-> TRUE,
               lang_out |-> FALSE]

NextGate == ReadAndClean(GatePages) \/ Steps

SpecGate == InitFixed /\ [][NextGate]_vars

NextAssets == ReadAndClean(MediaPages) \/ Steps

SpecAssets == InitFixed /\ [][NextAssets]_vars

\* The runs over the documents that clean_html_keep_structure returns for
\* RawPages.
CleanedPages == { clean_html_keep_structure(raw) : raw \in RawPages }

NextClean == ReadAndClean(CleanedPages) \/ Steps

SpecClean == InitFixed /\ [][NextClean]_vars

\* The runs over PdfPages.
NextPdf == ReadAndClean(PdfPages) \/ Steps

SpecPdf == InitFixed /\ [][NextPdf]_vars

\* ------------------------------------------------------------- properties

\* The items embed_images_and_rewrite added for file f.
IsFrom(item, f) == HasPrefix(item.file_name, ImagesDir \o ImgPrefix(f))

IsEmbedded(item) == HasPrefix(item.file_name, ImagesDir \o <<"i", "m", "g", "_">>)

IsCover(item) == item.file_name = ImagesDir \o CoverName

Count(q, T(_)) == Len(SelectSeq(q, T))

AfterEmbed == pc \in {"translate", "gate", "next"}

\* An <img> whose src is still a URL: the fetch of it failed.
FetchFailed(n) == n.tag = "img" /\ n.src.kind \in {"http", "protorel"} /\ ~n.tiny

\* C1: the ordinals of the accepted chapters are 1, 2, ..., n in the order
\* of acceptance: the i-th chapter is chapters/ch_00i.xhtml.
OrdinalsConsecutive ==
    \A i \in 1..Len(chapters) : chapters[i].file_name = ChapterFile(i)

\* C2: a page whose plain text has at least 200 characters becomes a
\* chapter.
ForcedKeepAccepted ==
    (pc = "next" /\ BsTmp(soup.body).plain >= ForcedKeepLen) => verdict = "chapter"

AssetNamesDistinct ==
    \A i, j \in 1..Len(book) : i # j => book[i].file_name # book[j].file_name

\* C4's case: two pages embedded the same image, and the book has a cover.
SameImageOnTwoPages ==
    /\ \E i, j \in 1..Len(book) :
          /\ IsFrom(book[i], 1) /\ IsFrom(book[j], 2)
          /\ book[i].content = book[j].content
    /\ \E c \in 1..Len(book) : IsCover(book[c])

\* C5: the counter is the book's: after every embed_images_and_rewrite it is
\* one more than the number of assets embedded so far in the run, and
\* embed_images_and_rewrite invoked once more with the prefix of the page,
\* on a document with one inline image, issues no name that book holds.
BookScopedCounter ==
    AfterEmbed =>
        /\ counter = 1 + Count(book, IsEmbedded)
        /\ LET again == embed_images_and_rewrite(<<Img(DataPng, FALSE)>>, book,
                                                 ImgPrefix(file_idx), <<"fail">>)
           IN  \A i, j \in 1..Len(again.items) :
                   i # j => again.items[i].file_name # again.items[j].file_name

\* C6: after the first page, the book's cover is the first image that
\* embed_images_and_rewrite embedded in it, with that image's bytes; with no
\* image embedded there is no cover.
CoverIsFirstEmbeddedImage ==
    (pc = "next" /\ file_idx = 1) =>
        LET done == SelectSeq(find_all(soup.body, {"img"}),
                              LAMBDA n : n.src.kind = "local")
        IN  IF done # <<>>
            THEN \E c, i \in 1..Len(book) :
                    /\ IsCover(book[c])
                    /\ book[i].file_name = done[1].src.ref
                    /\ book[c].content = book[i].content
            ELSE \A c \in 1..Len(book) : ~IsCover(book[c])

EmbedEffect ==
    LET a   == find_all(soup.body, {"img"})
        b   == find_all(soup'.body, {"img"})
        new == SubSeq(book', Len(book) + 1, Len(book'))
        rewritten(k) == b[k].src.kind = "local"
    IN  /\ pc' = "translate"
        /\ exit_code' = exit_code
        /\ Len(b) = Len(a)
        /\ SubSeq(book', 1, Len(book)) = book
        /\ Len(new) = Cardinality({k \in 1..Len(b) : rewritten(k)})
        /\ \A k \in 1..Len(a) :
              /\ ~rewritten(k) => b[k] = a[k]
              /\ rewritten(k) =>
                    /\ a[k].src.kind \in {"data", "http", "protorel"}
                    /\ ~a[k].tiny
                    /\ \E i \in 1..Len(new) :
                          /\ new[i].file_name = b[k].src.ref
                          /\ new[i].content = a[k].src.ref
              /\ (a[k].src.kind = "data" /\ ~a[k].tiny) => rewritten(k)

TranslationExhaustionAborts ==
    /\ failed_attempts <= TranslateAttempts
    /\ failed_attempts = TranslateAttempts =>
          /\ pc = "done"
          /\ exit_code = 1
          /\ ~epub_written
          /\ ~pdf_written

\* C8's case: the translation fails for good on a later page, with a chapter
\* already accepted.
ExhaustedAfterChapter ==
    /\ failed_attempts = TranslateAttempts
    /\ Len(chapters) >= 1
    /\ file_idx > 1

BadArguments == ~args.input_ok \/ (~args.epub_output /\ ~args.pdf_output)

NoOutputOnFailure ==
    /\ (pc = "done" /\ exit_code # 0) => (~epub_written /\ ~pdf_written)
    /\ epub_written => Len(chapters) >= 1
    /\ pdf_written => Len(chapters) >= 1

\* C10's case: every page of a directory was read and none became a chapter.
AllPagesSkipped ==
    /\ pc = "done"
    /\ exit_code = 1
    /\ files >= 2
    /\ file_idx = files
    /\ chapters = <<>>
    /\ args.epub_output

TranslateBeforeEmbed ==
    pc = "next" =>
        steps = IF translator = "None"
                THEN <<"clean_html_keep_structure", "embed_images_and_rewrite", "gate">>
                ELSE <<"clean_html_keep_structure", "translate_soup_in_place",
                       "embed_images_and_rewrite", "gate">>

\* C12, amended: the calls for a page are clean_html_keep_structure, then
\* embed_images_and_rewrite, then (with a translator)
\* translate_soup_in_place, then the gate.
EmbedBeforeTranslate ==
    pc = "next" =>
        steps = IF translator = "None"
                THEN <<"clean_html_keep_structure", "embed_images_and_rewrite", "gate">>
                ELSE <<"clean_html_keep_structure", "embed_images_and_rewrite",
                       "translate_soup_in_place", "gate">>

\* C12's case: a page with an embedded image went through the translation.
TranslatedAfterEmbedding ==
    /\ pc = "next"
    /\ translator = "google"
    /\ counter > 1
    /\ Len(steps) = 4

\* Whether the page in soup passes the gate, by itself.
Passes(s) == ~SkipUiOnly(s) /\ is_valid(Reshape(s.body))

\* C13: the gate's step on a page adds the page to chapters exactly when
\* the page passes the gate by itself, and leaves the earlier chapters as
\* they are; the chapters are in the order of the files.
GateIsPerPage ==
    /\ [](\A i, j \in 1..Len(chapters) : i < j => chapters[i].file < chapters[j].file)
    /\ [][pc = "gate" =>
            IF Passes(soup)
            THEN /\ Len(chapters') = Len(chapters) + 1
                 /\ SubSeq(chapters', 1, Len(chapters)) = chapters
                 /\ chapters'[Len(chapters')].file = file_idx
            ELSE chapters' = chapters]_vars

\* C13's case: of three pages the second was skipped by the heuristics and
\* the first and the third are the chapters.
SecondOfThreeSkipped ==
    /\ pc = "next"
    /\ file_idx = 3
    /\ chap_index = 2
    /\ Len(chapters) = 2
    /\ chapters[1].file = 1
    /\ chapters[2].file = 3

\* The ordinal in a chapter's file name (0: none issued so far).
Ordinal(ch) ==
    LET ks == {k \in 1..chap_index : ChapterFile(k) = ch.file_name}
    IN  IF ks = {} THEN 0 ELSE CHOOSE k \in ks : TRUE

\* C14: chapters, spine_items after "nav" and pdf_chapters hold the same
\* pages, one entry each, in the order of the files and of the ordinals;
\* book.toc and book.spine are these lists.
ListsAgree ==
    /\ Len(pdf_chapters) = Len(chapters)
    /\ IF spine_items = <<>> THEN chapters = <<>>
       ELSE /\ spine_items[1] = Nav
            /\ Len(spine_items) = Len(chapters) + 1
    /\ \A i \in 1..Len(chapters) :
          /\ spine_items[i + 1] = chapters[i].file_name
          /\ pdf_chapters[i].file = chapters[i].file
          /\ pdf_chapters[i].title = chapters[i].title
          /\ Ordinal(chapters[i]) > 0
    /\ \A i, j \in 1..Len(chapters) : i < j =>
          /\ chapters[i].file < chapters[j].file
          /\ Ordinal(chapters[i]) < Ordinal(chapters[j])
    /\ (epub_written \/ pc = "pdf") =>
          /\ toc = [i \in 1..Len(chapters) |-> chapters[i].file_name]
          /\ spine = <<Nav>> \o toc

\* C14's case: a package written with two chapters and a skipped page
\* between them.
TwoChaptersWritten ==
    /\ epub_written
    /\ Len(toc) = 2
    /\ chapters[2].file = 3

PageBreaks == SelectSeq(html_for_pdf, LAMBDA x : x.part = "pagebreak")

\* C15: html_for_pdf of n chapters has n-1 page-break markers: one right
\* before each chapter but the first (before its heading, if it has one),
\* none before the first chapter and none after the last.
PageBreaksBetween ==
    html_for_pdf # <<>> =>
        /\ Len(PageBreaks) = Len(pdf_chapters) - 1
        /\ html_for_pdf[1].part # "pagebreak"
        /\ html_for_pdf[Len(html_for_pdf)].part = "body"
        /\ \A k \in 1..Len(html_for_pdf) : html_for_pdf[k].part = "pagebreak" =>
              /\ k > 1 /\ k < Len(html_for_pdf)
              /\ html_for_pdf[k - 1].part = "body"
              /\ html_for_pdf[k - 1].chap = html_for_pdf[k].chap - 1
              /\ html_for_pdf[k + 1].part # "pagebreak"
              /\ html_for_pdf[k + 1].chap = html_for_pdf[k].chap
        /\ \A i \in 2..Len(pdf_chapters) :
              \E k \in 1..Len(html_for_pdf) :
                  html_for_pdf[k].part = "pagebreak" /\ html_for_pdf[k].chap = i

\* C15's case: a document of three chapters.
ThreeChaptersFlattened ==
    /\ Len(pdf_chapters) = 3
    /\ Len(PageBreaks) = 2

\* C16: include_h1 is set only for a page whose first <h1> has text; the
\* title is then that text; html_for_pdf has the <h1> of a chapter exactly
\* when its include_h1 is set, so never for a title from the document title
\* or the file name.
HeadingOnlyFromH1 ==
    /\ (pc = "next" /\ verdict = "chapter") =>
          (pdf_chapters[Len(pdf_chapters)].include_h1 <=> h1_text(soup.body) > 0)
    /\ \A i \in 1..Len(pdf_chapters) :
          pdf_chapters[i].include_h1 <=> pdf_chapters[i].title = "h1"
    /\ html_for_pdf # <<>> =>
          \A i \in 1..Len(pdf_chapters) :
              pdf_chapters[i].include_h1 <=>
                  \E k \in 1..Len(html_for_pdf) :
                      html_for_pdf[k].part = "h1" /\ html_for_pdf[k].chap = i

\* C16's case: a page that is one image is a chapter without a heading, next
\* to a chapter with one.
ImagePageWithoutHeading ==
    /\ html_for_pdf # <<>>
    /\ \E i, j \in 1..Len(pdf_chapters) :
          /\ ~pdf_chapters[i].include_h1
          /\ chapters[i].title = "doc"
          /\ Len(pdf_chapters[i].refs) = 1
          /\ pdf_chapters[j].include_h1

\* All the tokens of html_for_pdf, in order.
RECURSIVE AllRefs(_)
AllRefs(ps) == IF ps = <<>> THEN <<>> ELSE Head(ps).refs \o AllRefs(Tail(ps))

\* The values of a reference attribute that are a data: value.
DataKinds == {"data", "baddata"}

ChapterRefs == AllRefs(pdf_chapters)

SrcRefs(refs) == SelectSeq(refs, LAMBDA t : t.name = "src")

\* The body of chapter i in html_for_pdf.
FlatBody(i) ==
    LET hits == SelectSeq(html_for_pdf, LAMBDA x : x.part = "body" /\ x.chap = i)
    IN  hits[1].refs

\* The item of book that a rewritten src names.
ItemOf(val) == CHOOSE it \in {book[k] : k \in 1..Len(book)} : it.file_name = val.ref

\* C18 as stated, in runs where every image is an inline data: reference:
\* each src that embed_images_and_rewrite rewrote to a package item is, in
\* html_for_pdf, a data: value with the bytes and the media type of the
\* original reference (which are the content and media type of the item).
DataRoundTrip ==
    html_for_pdf # <<>> =>
        \A i \in 1..Len(pdf_chapters) :
            \A j \in 1..Len(SrcRefs(pdf_chapters[i].refs)) :
                LET before == SrcRefs(pdf_chapters[i].refs)[j].val
                    after  == SrcRefs(FlatBody(i))[j].val
                IN  before.kind = "local" =>
                        /\ after.kind = "data"
                        /\ after.ref = ItemOf(before).content
                        /\ after.mime = ItemOf(before).media_type

\* An element other than an image or a table that has no visible text and no
\* image or table under it.
IsHollow(n) == n.tag \notin {"#text", "img", "table"} /\ IsEmpty(n)

\* C19 as stated: the document clean_html_keep_structure returned has no
\* element without visible text and without an image or table under it.
NoHollowElement ==
    \A k \in 1..Len(Flatten(soup.body)) : ~IsHollow(Flatten(soup.body)[k])

\* C20 as stated: when clean_html_keep_structure detected a main root, the
\* main root is in the document it returned.
MainRootKept ==
    soup.main_root # 0 => ContainsId(soup.body, soup.main_root)

\* The body of the candidate chapter that the validity check looks at.
Candidate == Reshape(soup.body)

\* C21 as stated: a page that passed the rejection heuristics becomes a
\* chapter exactly when the body of the candidate holds non-blank text or an
\* element of the content set (paragraph, image, heading, list, list item,
\* link, quote, table).
ValidWhenTextOrContent ==
    (pc = "next" /\ verdict \in {"chapter", "skip_invalid"}) =>
        (verdict = "chapter" <=>
            (Strings(Candidate) # <<>> \/ HasTag(Candidate, VisibleTags)))

\* A page that passed the rejection heuristics and that the reshape applies
\* to: no paragraph and no block tag in its body.
ReshapeApplies ==
    /\ pc = "next"
    /\ verdict \in {"chapter", "skip_invalid"}
    /\ BsTmp(soup.body).p_count = 0
    /\ ~HasTag(soup.body, BlockTags)

MediaAndLinks(body) ==
    LET ms == find_all(body, {"img", "a"})
    IN  [k \in 1..Len(ms) |-> <<ms[k].tag, ms[k].src, ms[k].attrs>>]

\* C23 as stated: the step from the embedding to the gate, in which
\* translate_soup_in_place runs when there is a translator, leaves the images
\* and links of the document as they are, and without a translator leaves
\* the whole document as it is.
TranslationKeepsMedia ==
    [][pc = "translate" =>
          /\ MediaAndLinks(soup'.body) = MediaAndLinks(soup.body)
          /\ translator = "None" => soup' = soup]_vars

====
